---- MODULE Spec2Model ----
(***************************************************************************)
(* A model of bofhle (src/src/bofhle): the feedback scorer score_wordle,   *)
(* the candidate filter filter_candidates, the guess rankers, the pool     *)
(* selection select_guess_pool, the self-play simulator play_game, the     *)
(* interactive path of the command line (cli.main) and the history store   *)
(* (database.py).                                                          *)
(*                                                                         *)
(* A word is a sequence of letters, a letter is its position in the        *)
(* alphabet (a = 1 .. z = 26), so that the order of the letters is the     *)
(* order Python compares lowercase strings by.  A feedback is a sequence   *)
(* of the symbols "g", "y", "b".  A Python exception that leaves a         *)
(* function is modelled as a one-element sequence holding its name.        *)
(***************************************************************************)
EXTENDS Integers, Sequences, FiniteSets, TLC

VARIABLES guess, candidate, result,
          words, history, candidates,
          secret, strategy, candidate_only, candidate_only_after,
          guess_index, guess_pool, game_result, pc,
          db, suggestions, rank_limit, appended

vars == <<guess, candidate, result, words, history, candidates, secret,
          strategy, candidate_only, candidate_only_after, guess_index,
          guess_pool, game_result, pc, db, suggestions, rank_limit,
          appended>>

----------------------------------------------------------------------------
(* Letters and words *)

L == [a |-> 1, b |-> 2, c |-> 3, d |-> 4, e |-> 5, f |-> 6, g |-> 7,
      h |-> 8, i |-> 9, j |-> 10, k |-> 11, l |-> 12, m |-> 13, n |-> 14,
      o |-> 15, p |-> 16, q |-> 17, r |-> 18, s |-> 19, t |-> 20, u |-> 21,
      v |-> 22, w |-> 23, x |-> 24, y |-> 25, z |-> 26]

Alphabet == 1..26

quota == <<L.q, L.u, L.o, L.t, L.a>>
paste == <<L.p, L.a, L.s, L.t, L.e>>
bdiff == <<L.b, L.d, L.i, L.f, L.f>>
baste == <<L.b, L.a, L.s, L.t, L.e>>
haste == <<L.h, L.a, L.s, L.t, L.e>>
allay == <<L.a, L.l, L.l, L.a, L.y>>
alarm == <<L.a, L.l, L.a, L.r, L.m>>

Min(x, y) == IF x <= y THEN x ELSE y

Range(s) == {s[i] : i \in 1..Len(s)}

\* Python's str < str on lowercase words: lexicographic, a proper prefix first.
RECURSIVE WordLess(_, _)
WordLess(u, v) ==
    IF v = <<>> THEN FALSE
    ELSE IF u = <<>> THEN TRUE
    ELSE IF u[1] # v[1] THEN u[1] < v[1]
    ELSE WordLess(Tail(u), Tail(v))

----------------------------------------------------------------------------
(* score_wordle *)

ResultLen == 5

ValueError == <<"ValueError">>
IndexError == <<"IndexError">>
ZeroDivisionError == <<"ZeroDivisionError">>

IsFeedback(r) == Len(r) = ResultLen /\ \A i \in 1..ResultLen : r[i] \in {"g", "y", "b"}

AllMiss == [i \in 1..ResultLen |-> "b"]
AllHit == [i \in 1..ResultLen |-> "g"]

\* Mutant: the first loop never marks a hit (every position is left to the
\* second loop).
RECURSIVE FirstPassNoHit(_, _, _, _, _)
FirstPassNoHit(gs, cs, idx, res, remaining) ==
    IF idx > Min(Len(gs), Len(cs))
    THEN IF Len(gs) # Len(cs)
         THEN [error |-> ValueError, result |-> res, remaining |-> remaining]
         ELSE [error |-> <<>>, result |-> res, remaining |-> remaining]
    ELSE FirstPassNoHit(gs, cs, idx + 1, res,
                        [remaining EXCEPT ![cs[idx]] = remaining[cs[idx]] + 1])

\* Mutant: zip without strict=True, which stops silently at the shorter word.
RECURSIVE FirstPassNotStrict(_, _, _, _, _)
FirstPassNotStrict(gs, cs, idx, res, remaining) ==
    IF idx > Min(Len(gs), Len(cs))
    THEN [error |-> <<>>, result |-> res, remaining |-> remaining]
    ELSE IF gs[idx] = cs[idx]
         THEN IF idx > ResultLen
              THEN [error |-> IndexError, result |-> res, remaining |-> remaining]
              ELSE FirstPassNotStrict(gs, cs, idx + 1, [res EXCEPT ![idx] = "g"],
                                      remaining)
         ELSE FirstPassNotStrict(gs, cs, idx + 1, res,
                        [remaining EXCEPT ![cs[idx]] = remaining[cs[idx]] + 1])

\* The first loop, from position idx on: zip(guess, candidate, strict=True)
\* yields the common prefix and raises ValueError after it when the lengths
\* differ; result[idx] = "g" raises IndexError beyond the five slots.
RECURSIVE FirstPass(_, _, _, _, _)
FirstPass(gs, cs, idx, res, remaining) ==
    IF idx > Min(Len(gs), Len(cs))
    THEN IF Len(gs) # Len(cs)
         THEN [error |-> ValueError, result |-> res, remaining |-> remaining]
         ELSE [error |-> <<>>, result |-> res, remaining |-> remaining]
    ELSE IF gs[idx] = cs[idx]
         THEN IF idx > ResultLen
              THEN [error |-> IndexError, result |-> res, remaining |-> remaining]
              ELSE FirstPass(gs, cs, idx + 1, [res EXCEPT ![idx] = "g"], remaining)
         ELSE FirstPass(gs, cs, idx + 1, res,
                        [remaining EXCEPT ![cs[idx]] = remaining[cs[idx]] + 1])

\* Mutant: the second loop marks "present" without using up the candidate's
\* letter (no decrement of the remaining count).
RECURSIVE SecondPassNoDecrement(_, _, _, _)
SecondPassNoDecrement(gs, idx, res, remaining) ==
    IF idx > Len(gs) THEN res
    ELSE IF idx > ResultLen THEN IndexError
    ELSE IF res[idx] # "b" THEN SecondPassNoDecrement(gs, idx + 1, res, remaining)
    ELSE IF remaining[gs[idx]] > 0
         THEN SecondPassNoDecrement(gs, idx + 1, [res EXCEPT ![idx] = "y"], remaining)
         ELSE SecondPassNoDecrement(gs, idx + 1, res, remaining)

\* The second loop, from position idx on: result[idx] is read first, and
\* raises IndexError beyond the five slots.
RECURSIVE SecondPass(_, _, _, _)
SecondPass(gs, idx, res, remaining) ==
    IF idx > Len(gs) THEN res
    ELSE IF idx > ResultLen THEN IndexError
    ELSE IF res[idx] # "b" THEN SecondPass(gs, idx + 1, res, remaining)
    ELSE IF remaining[gs[idx]] > 0
         THEN SecondPass(gs, idx + 1, [res EXCEPT ![idx] = "y"],
                         [remaining EXCEPT ![gs[idx]] = remaining[gs[idx]] - 1])
         ELSE SecondPass(gs, idx + 1, res, remaining)

ScoreWordle(gs, cs) ==
    LET first == FirstPass(gs, cs, 1, AllMiss, [x \in Alphabet |-> 0])
    IN  IF first.error # <<>> THEN first.error
        ELSE SecondPass(gs, 1, first.result, first.remaining)

----------------------------------------------------------------------------
(* The inputs of the scorer's specification: every word over two letters   *)
(* up to MaxWordLen letters (equal and mismatched lengths, shorter and     *)
(* longer than five), every five-letter word over three letters, and the   *)
(* words of the repository's tests.                                        *)

MaxWordLen == 6

RECURSIVE WordsOver(_, _)
WordsOver(letters, len) ==
    IF len = 0 THEN {<<>>}
    ELSE {<<x>> \o w : x \in letters, w \in WordsOver(letters, len - 1)}

ScoreInputs ==
    UNION {WordsOver({L.a, L.l}, len) : len \in 0..MaxWordLen}
    \cup WordsOver({L.a, L.l, L.y}, ResultLen)
    \cup {allay, alarm, paste, quota}

NoWord == <<>>
NoResult == <<>>
NoGame == [secret |-> <<>>, guesses |-> <<>>]

\* No database file (DB_PATH does not exist).
NoDb == [exists |-> FALSE, rows |-> {}, sequence |-> 0]

ScoreInit ==
    /\ guess \in ScoreInputs
    /\ candidate \in ScoreInputs
    /\ result = NoResult
    /\ pc = "call"
    /\ words = <<>> /\ history = <<>> /\ candidates = <<>>
    /\ secret = NoWord /\ strategy = "" /\ candidate_only = FALSE
    /\ candidate_only_after = 0 /\ guess_index = 0 /\ guess_pool = <<>>
    /\ game_result = NoGame
    /\ db = NoDb /\ suggestions = <<>> /\ rank_limit = 0 /\ appended = <<>>

CallScoreWordle ==
    /\ pc = "call"
    /\ result' = ScoreWordle(guess, candidate)
    /\ pc' = "done"
    /\ UNCHANGED <<guess, candidate, words, history, candidates, secret,
                   strategy, candidate_only, candidate_only_after,
                   guess_index, guess_pool, game_result>>
    /\ UNCHANGED <<db, suggestions, rank_limit, appended>>

ScoreNext == CallScoreWordle

ScoreSpec == ScoreInit /\ [][ScoreNext]_vars

\* The positions of gs that are not hits against cs.
NonHit(gs, cs) == {i \in 1..Len(gs) : gs[i] # cs[i]}

\* What the claim C2 expects at position i of a five-letter guess.
ExpectedSymbol(gs, cs, i) ==
    IF gs[i] = cs[i] THEN "g"
    ELSE LET x == gs[i]
             inGuess == {j \in NonHit(gs, cs) : gs[j] = x}
             inCandidate == {j \in NonHit(gs, cs) : cs[j] = x}
             k == Min(Cardinality(inGuess), Cardinality(inCandidate))
             before == {j \in inGuess : j < i}
         IN  IF Cardinality(before) < k THEN "y" ELSE "b"

\* C2: for five-letter words g and c, score_wordle(g, c) marks position i
\* "g" exactly when g[i] = c[i]; for every letter x exactly the leftmost k
\* non-hit positions of g holding x are "y", k being the smaller of the
\* numbers of non-hit positions holding x in g and in c; every other
\* position is "b"; and score_wordle("allay", "alarm") = "ggbyb".
C2_DuplicateLetters ==
    (pc = "done" /\ Len(guess) = ResultLen /\ Len(candidate) = ResultLen) =>
        /\ IsFeedback(result)
        /\ \A i \in 1..ResultLen : result[i] = ExpectedSymbol(guess, candidate, i)
        /\ (guess = allay /\ candidate = alarm) => result = <<"g", "g", "b", "y", "b">>

C2_Witness ==
    /\ pc = "done" /\ guess = allay /\ candidate = alarm
    /\ result = <<"g", "g", "b", "y", "b">>

\* C7 as stated: for all words g and c of equal length, whatever the length,
\* score_wordle(g, c) returns one symbol of {g, y, b} per letter position of g,
\* and score_wordle(g, g) is all-hit.
C7_AnyEqualLength ==
    (pc = "done" /\ Len(guess) = Len(candidate)) =>
        /\ Len(result) = Len(guess)
        /\ \A i \in 1..Len(result) : result[i] \in {"g", "y", "b"}
        /\ guess = candidate => \A i \in 1..Len(result) : result[i] = "g"

\* C7 amended: for all words g and c of length five, score_wordle(g, c)
\* returns one symbol of {g, y, b} per letter position of g, and
\* score_wordle(g, g) is all-hit.  For equal lengths other than five the
\* result is five symbols all the same (shorter words) or IndexError (longer).
C7_FiveLetters ==
    (pc = "done" /\ Len(guess) = Len(candidate)) =>
        /\ Len(guess) = ResultLen =>
              /\ Len(result) = Len(guess)
              /\ \A i \in 1..Len(result) : result[i] \in {"g", "y", "b"}
              /\ guess = candidate => result = AllHit
        /\ Len(guess) < ResultLen =>
              /\ IsFeedback(result)
              /\ \A i \in (Len(guess) + 1)..ResultLen : result[i] = "b"
        /\ Len(guess) > ResultLen => result = IndexError

C7_Witness ==
    pc = "done" /\ guess = paste /\ candidate = paste /\ result = AllHit

\* C8: score_wordle called with a guess and a candidate of different lengths
\* always fails with an error and never returns a feedback.
C8_MismatchedLengthsFail ==
    (pc = "done" /\ Len(guess) # Len(candidate)) =>
        /\ result \in {ValueError, IndexError}
        /\ ~IsFeedback(result)

C8_Witness ==
    /\ pc = "done" /\ Len(guess) = ResultLen /\ Len(candidate) = ResultLen - 1
    /\ result = ValueError

----------------------------------------------------------------------------
(* filter_candidates *)

\* Mutant: only the last record of the history constrains the candidates.
FilterLastRecordOnly(ws, hist) ==
    IF hist = <<>> THEN ws
    ELSE LET item == hist[Len(hist)]
             Consistent(w) == ScoreWordle(item.guess, w) = item.result
         IN  SelectSeq(ws, Consistent)

\* Mutant: the scorer's arguments swapped (the word scored against the guess).
RECURSIVE FilterSwappedArguments(_, _)
FilterSwappedArguments(ws, hist) ==
    IF hist = <<>> THEN ws
    ELSE LET item == hist[1]
             Consistent(w) == ScoreWordle(w, item.guess) = item.result
         IN  FilterSwappedArguments(SelectSeq(ws, Consistent), Tail(hist))

\* Mutant: the words kept are those whose feedback differs from the record's.
RECURSIVE FilterInconsistent(_, _)
FilterInconsistent(ws, hist) ==
    IF hist = <<>> THEN ws
    ELSE LET item == hist[1]
             Inconsistent(w) == ScoreWordle(item.guess, w) # item.result
         IN  FilterInconsistent(SelectSeq(ws, Inconsistent), Tail(hist))

\* candidates = words, then one list comprehension per record, in order.
RECURSIVE FilterCandidates(_, _)
FilterCandidates(ws, hist) ==
    IF hist = <<>> THEN ws
    ELSE LET item == hist[1]
             Consistent(w) == ScoreWordle(item.guess, w) = item.result
         IN  FilterCandidates(SelectSeq(ws, Consistent), Tail(hist))

(* The dictionaries: the lists of distinct words of WordList, up to MaxDict *)
(* words long (load_words keeps the five-letter lines of the word file).   *)

WordList == {quota, paste, bdiff, baste, haste}

MaxDict == 3

Dictionaries ==
    {ws \in UNION {[1..len -> WordList] : len \in 0..MaxDict} :
        \A i, j \in 1..Len(ws) : i # j => ws[i] # ws[j]}

(* The inputs of the filter's specification: the dictionaries over         *)
(* FilterWords, and the records made of a guess of FilterWords and a       *)
(* feedback that guess gets against some word of FilterWords (so that      *)
(* histories no word satisfies, and histories no secret produces, occur).  *)

FilterWords == {quota, paste, bdiff, baste}

FeedbackPool(gs) == {ScoreWordle(gs, w) : w \in FilterWords}

Records ==
    UNION {{[guess |-> gs, result |-> r] : r \in FeedbackPool(gs)} : gs \in FilterWords}

MaxHist == 2

FilterInit ==
    /\ words \in {ws \in Dictionaries : Range(ws) \subseteq FilterWords}
    /\ history = <<>>
    /\ candidates = FilterCandidates(words, <<>>)
    /\ pc = "filter"
    /\ guess = NoWord /\ candidate = NoWord /\ result = NoResult
    /\ secret = NoWord /\ strategy = "" /\ candidate_only = FALSE
    /\ candidate_only_after = 0 /\ guess_index = 0 /\ guess_pool = <<>>
    /\ game_result = NoGame
    /\ db = NoDb /\ suggestions = <<>> /\ rank_limit = 0 /\ appended = <<>>

\* A record is appended to the history and the candidate set is recomputed
\* from the dictionary and the whole history (as both callers do).
AppendAndFilter ==
    /\ pc = "filter"
    /\ Len(history) < MaxHist
    /\ \E item \in Records :
          /\ history' = Append(history, item)
          /\ candidates' = FilterCandidates(words, history')
    /\ UNCHANGED <<guess, candidate, result, words, secret, strategy,
                   candidate_only, candidate_only_after, guess_index,
                   guess_pool, game_result, pc>>
    /\ UNCHANGED <<db, suggestions, rank_limit, appended>>

FilterNext == AppendAndFilter

FilterSpec == FilterInit /\ [][FilterNext]_vars

\* s is a sub-list of t: s is t with some elements left out, order kept.
RECURSIVE IsSubList(_, _)
IsSubList(s, t) ==
    IF s = <<>> THEN TRUE
    ELSE IF t = <<>> THEN FALSE
    ELSE IF s[1] = t[1] THEN IsSubList(Tail(s), Tail(t))
    ELSE IsSubList(s, Tail(t))

\* The words of ws, in the order of ws, consistent with every record of hist.
ConsistentWords(ws, hist) ==
    LET Ok(w) == \A i \in 1..Len(hist) : ScoreWordle(hist[i].guess, w) = hist[i].result
    IN  SelectSeq(ws, Ok)

Orderings(n) == {p \in [1..n -> 1..n] : \A i, j \in 1..n : i # j => p[i] # p[j]}

\* C3: filter_candidates(D, H) is exactly the list of the words of D, in D's
\* order, consistent with every record of H; it is D for the empty history and
\* the same for every permutation of the records of H.
C3_FilterExact ==
    pc = "filter" =>
        /\ candidates = ConsistentWords(words, history)
        /\ history = <<>> => candidates = words
        /\ \A p \in Orderings(Len(history)) :
              FilterCandidates(words, [i \in 1..Len(history) |-> history[p[i]]])
                  = candidates

C3_Witness ==
    /\ pc = "filter" /\ Len(history) = 2 /\ history[1] # history[2]
    /\ Len(words) = 3
    /\ Len(candidates) = 1
    /\ Len(FilterCandidates(words, <<history[1]>>)) = 2
    /\ Len(FilterCandidates(words, <<history[2]>>)) = 2

\* C4: filtering is monotonic: appending a record to the history never adds
\* a candidate; filter_candidates(D, H) is a sub-list of
\* filter_candidates(D, H without its last record), which is a sub-list of D.
C4_Monotonic ==
    [][pc = "filter" =>
        /\ IsSubList(candidates', candidates)
        /\ Len(candidates') <= Len(candidates)
        /\ IsSubList(candidates, words)
        /\ IsSubList(candidates', words)]_vars

C4_Witness ==
    /\ pc = "filter" /\ Len(history) = 2
    /\ Len(candidates) < Len(FilterCandidates(words, <<history[1]>>))
    /\ Len(FilterCandidates(words, <<history[1]>>)) < Len(words)

----------------------------------------------------------------------------
(* The guess rankers.  A ranking is a list of <<score, word>> pairs.       *)

Take(seq, limit) == SubSeq(seq, 1, Min(limit, Len(seq)))

\* The list seq as a list built once (its elements are not computed again at
\* every use).
List(seq) == seq \o <<>>

\* The pairs of positions of seq.
Pairs(seq) == (1..Len(seq)) \X (1..Len(seq))

\* list.sort: the stable sort of seq, where before holds the pairs <<i, j>> of
\* positions whose elements the sort key puts in that order.
SortedBy(seq, before) ==
    LET n == Len(seq)
        Rank(i) == 1 + Cardinality({j \in 1..n :
                         \/ <<j, i>> \in before
                         \/ (<<i, j>> \notin before /\ j < i)})
    IN  List([k \in 1..n |-> seq[CHOOSE i \in 1..n : Rank(i) = k]])

RECURSIVE SumOver(_, _)
SumOver(S, f) ==
    IF S = {} THEN 0
    ELSE LET x == CHOOSE y \in S : TRUE IN f[x] + SumOver(S \ {x}, f)

\* Counter("".join(words))[ch]
LetterCount(ws, ch) ==
    SumOver(1..Len(ws),
            [i \in 1..Len(ws) |-> Cardinality({j \in 1..Len(ws[i]) : ws[i][j] = ch})])

\* score_word: the sum of the letter counts over the distinct letters of word.
ScoreWord(ws, word) ==
    SumOver(Range(word), [ch \in Range(word) |-> LetterCount(ws, ch)])

FrequencyBefore(a, b) == a[1] > b[1]

\* score_words: the letter counts are those of the scored list itself.
ScoreWords(ws) ==
    LET scored == List([i \in 1..Len(ws) |-> <<ScoreWord(ws, ws[i]), ws[i]>>])
        before == {p \in Pairs(scored) :
                      FrequencyBefore(scored[p[1]], scored[p[2]])}
    IN  SortedBy(scored, before)

SuggestTop(ws, limit) == Take(ScoreWords(ws), limit)

\* Mutant: the entropy ranker sorted with the largest expected remainder first.
EntropyDescending(a, b) ==
    a[1][1] > b[1][1] \/ (a[1][1] = b[1][1] /\ WordLess(a[2], b[2]))

\* Mutant: the sort key without the word, equal scores left in pool order.
ScoreOnly(a, b) == a[1] < b[1]

\* The sort key (item[0], item[1]) of the coverage and entropy rankers.
ScoreThenWord(a, b) == a[1] < b[1] \/ (a[1] = b[1] /\ WordLess(a[2], b[2]))

SuggestCoverage(all_words, cands, limit) ==
    LET Remaining(word) ==
            Cardinality({i \in 1..Len(cands) : ScoreWordle(word, cands[i]) = AllMiss})
        scored == List([i \in 1..Len(all_words) |->
                          <<Remaining(all_words[i]), all_words[i]>>])
        before == {p \in Pairs(scored) :
                      ScoreThenWord(scored[p[1]], scored[p[2]])}
    IN  Take(SortedBy(scored, before), limit)

\* The sizes of the groups of candidates by the pattern gs gets against
\* them, in the order the patterns first occur (a dict keeps insertion order).
PatternCounts(gs, cands) ==
    LET pattern == List([i \in 1..Len(cands) |-> ScoreWordle(gs, cands[i])])
        IsFirst(i) == \A j \in 1..(i - 1) : pattern[j] # pattern[i]
        firsts == SelectSeq([i \in 1..Len(cands) |-> i], IsFirst)
    IN  List([k \in 1..Len(firsts) |->
            Cardinality({i \in 1..Len(cands) : pattern[i] = pattern[firsts[k]]})])

\* Mutant: the group sizes summed without squaring.
SumOfCounts(counts) ==
    SumOver(1..Len(counts), [k \in 1..Len(counts) |-> counts[k]])

SumOfSquares(counts) ==
    SumOver(1..Len(counts), [k \in 1..Len(counts) |-> counts[k] * counts[k]])

\* expected = sum(len(group) ** 2) / len(candidates) is a float; its score is
\* kept as the pair <<sum of squares, len(candidates)>>.  All the scores of
\* one call share the denominator, so they order as the numerators do.
\* The division raises ZeroDivisionError on the first pool word when there is
\* no candidate.
EntropyBefore(a, b) ==
    a[1][1] < b[1][1] \/ (a[1][1] = b[1][1] /\ WordLess(a[2], b[2]))

SuggestEntropy(all_words, cands, limit) ==
    IF all_words # <<>> /\ cands = <<>>
    THEN [error |-> ZeroDivisionError, ranking |-> <<>>]
    ELSE LET scored == List([i \in 1..Len(all_words) |->
                          <<<<SumOfSquares(PatternCounts(all_words[i], cands)), Len(cands)>>,
                            all_words[i]>>])
             before == {p \in Pairs(scored) :
                           EntropyBefore(scored[p[1]], scored[p[2]])}
         IN  [error |-> <<>>, ranking |-> Take(SortedBy(scored, before), limit)]

RECURSIVE Power(_, _)
Power(base, exponent) == IF exponent = 0 THEN 1 ELSE base * Power(base, exponent - 1)

RECURSIVE PatternPower(_)
PatternPower(counts) ==
    IF counts = <<>> THEN 1
    ELSE Power(counts[1], counts[1]) * PatternPower(Tail(counts))

\* entropy = -sum(p * log2(p)), p = count / total, is a float; its score is
\* kept as the list of the group sizes it is computed from.  With the same
\* total, the entropy of counts c is larger than that of counts d exactly when
\* the product of c[k] ** c[k] is smaller than that of d[k] ** d[k]; equal
\* lists of counts give the same float, and then the word decides.  Two
\* different lists of counts with the same product differ at most by the
\* rounding of the float sums, so the sort may put either first.
ShannonBefore(a, b) ==
    \/ PatternPower(a[1]) < PatternPower(b[1])
    \/ (a[1] = b[1] /\ WordLess(a[2], b[2]))

\* The sorted lists of at most limit of the scored pairs at the indices left:
\* a pair comes first when no other pair left has to come before it.
RECURSIVE ShannonOrders(_, _, _)
ShannonOrders(scored, left, limit) ==
    IF left = {} \/ limit = 0 THEN {<<>>}
    ELSE LET first == {i \in left :
                         \A j \in left : ~ShannonBefore(scored[j], scored[i])}
         IN  UNION {{<<scored[i]>> \o rest :
                        rest \in ShannonOrders(scored, left \ {i}, limit - 1)} :
                    i \in first}

\* The set of the rankings suggest_shannon can return.
SuggestShannon(all_words, cands, limit) ==
    LET n == Len(all_words)
        scored == List([i \in 1..n |->
                          <<PatternCounts(all_words[i], cands), all_words[i]>>])
    IN  ShannonOrders(scored, 1..n, limit)

----------------------------------------------------------------------------
(* select_guess_pool *)

SelectGuessPool(strat, all_words, cands, cand_only, index, cand_only_after) ==
    IF strat = "most-likely" THEN cands
    ELSE IF cand_only /\ index >= cand_only_after THEN cands
    ELSE all_words

Strategies == {"entropy", "shannon", "most-likely", "coverage"}

\* The strategy names tried: the four of the program and one it does not know.
StrategyNames == Strategies \cup {"bogus"}

MaxAfter == 2

TestWords == {quota, paste, bdiff}

SubLists(ws) ==
    {s \in UNION {[1..len -> Range(ws)] : len \in 0..Len(ws)} :
        /\ \A i, j \in 1..Len(s) : i # j => s[i] # s[j]
        /\ IsSubList(s, ws)}

\* The arguments of select_guess_pool: a dictionary over the test's three
\* words, a sub-list of it as the candidates, a round of play_game's loop.
PoolInit ==
    /\ words \in {ws \in Dictionaries : Range(ws) \subseteq TestWords}
    /\ candidates \in SubLists(words)
    /\ strategy \in StrategyNames
    /\ candidate_only \in BOOLEAN
    /\ guess_index \in 0..Len(words)
    /\ candidate_only_after \in 0..MaxAfter
    /\ guess_pool = <<>>
    /\ pc = "select"
    /\ guess = NoWord /\ candidate = NoWord /\ result = NoResult
    /\ history = <<>> /\ secret = NoWord /\ game_result = NoGame
    /\ db = NoDb /\ suggestions = <<>> /\ rank_limit = 0 /\ appended = <<>>

CallSelectGuessPool ==
    /\ pc = "select"
    /\ guess_pool' = SelectGuessPool(strategy, words, candidates, candidate_only,
                                     guess_index, candidate_only_after)
    /\ pc' = "selected"
    /\ UNCHANGED <<guess, candidate, result, words, history, candidates, secret,
                   strategy, candidate_only, candidate_only_after, guess_index,
                   game_result>>
    /\ UNCHANGED <<db, suggestions, rank_limit, appended>>

PoolNext == CallSelectGuessPool

PoolSpec == PoolInit /\ [][PoolNext]_vars

\* C5: for every strategy name, select_guess_pool returns the full dictionary
\* whenever the candidate-only policy is disabled or the round index is below
\* the threshold, and the candidate set exactly when the policy is enabled and
\* the round index is at or after the threshold; strategy "most-likely" with
\* candidate_only = False at round 0 gets the full dictionary.
C5_PoolPolicy ==
    pc = "selected" =>
        guess_pool = IF candidate_only /\ guess_index >= candidate_only_after
                     THEN candidates
                     ELSE words

----------------------------------------------------------------------------
(* play_game.  pc is "playing" inside the loop, "returned" once the        *)
(* GameResult is returned, and the name of the exception once one is       *)
(* raised.  guess_index is the index of the next round of the loop.        *)

\* Mutant: the loop runs one round too many.
RoundsOneMore(ws) == Len(ws) + 2

\* range(len(words) + 1): the number of rounds of the loop.
Rounds(ws) == Len(ws) + 1

Raised(error) == [error |-> error, guess |-> NoWord]
Chosen(word) == [error |-> <<>>, guess |-> word]

\* suggest_...(...)[0][1]: the word of the first pair, IndexError if none.
TopWord(ranking) ==
    IF Len(ranking) = 0 THEN Raised(IndexError) ELSE Chosen(ranking[1][2])

\* Lines 168-188: the guess of a round, or the exception raised instead.
GuessOutcomes ==
    IF Len(candidates) = 1 THEN {Chosen(candidates[1])}
    ELSE LET pool == SelectGuessPool(strategy, words, candidates, candidate_only,
                                     guess_index, candidate_only_after)
         IN  CASE strategy = "entropy" ->
                    LET top == SuggestEntropy(pool, candidates, 1)
                    IN  IF top.error # <<>> THEN {Raised(top.error)}
                        ELSE {TopWord(top.ranking)}
               [] strategy = "shannon" ->
                    {TopWord(ranking) : ranking \in SuggestShannon(pool, candidates, 1)}
               [] strategy = "most-likely" ->
                    {TopWord(SuggestTop(candidates, 1))}
               [] strategy = "coverage" ->
                    {TopWord(SuggestCoverage(pool, candidates, 1))}
               [] OTHER -> {Raised(ValueError)}

\* The pool is assigned only when more or less than one candidate remains.
PoolAfterRound ==
    IF Len(candidates) = 1 THEN guess_pool
    ELSE SelectGuessPool(strategy, words, candidates, candidate_only,
                         guess_index, candidate_only_after)

GameInit ==
    /\ words \in Dictionaries
    /\ secret \in WordList
    /\ strategy \in StrategyNames
    /\ candidate_only \in BOOLEAN
    /\ candidate_only_after \in 0..MaxAfter
    /\ history = <<>>
    /\ candidates = words
    /\ guess_index = 0
    /\ guess_pool = <<>>
    /\ guess = NoWord /\ result = NoResult
    /\ game_result = NoGame
    /\ pc = "playing"
    /\ candidate = NoWord
    /\ db = NoDb /\ suggestions = <<>> /\ rank_limit = 0 /\ appended = <<>>

\* One round of the loop in which a guess is made (lines 167-193).
PlayRound ==
    /\ pc = "playing"
    /\ guess_index < Rounds(words)
    /\ \E outcome \in GuessOutcomes :
          /\ outcome.error = <<>>
          /\ guess' = outcome.guess
          /\ result' = ScoreWordle(outcome.guess, secret)
          /\ history' = Append(history, [guess |-> guess', result |-> result'])
          /\ guess_pool' = PoolAfterRound
          /\ IF guess' = secret
             THEN /\ game_result' = [secret |-> secret,
                                     guesses |-> [i \in 1..Len(history') |-> history'[i].guess]]
                  /\ pc' = "returned"
                  /\ UNCHANGED <<candidates, guess_index>>
             ELSE /\ candidates' = FilterCandidates(words, history')
                  /\ guess_index' = guess_index + 1
                  /\ UNCHANGED <<game_result, pc>>
    /\ UNCHANGED <<candidate, words, secret, strategy, candidate_only,
                   candidate_only_after>>
    /\ UNCHANGED <<db, suggestions, rank_limit, appended>>

\* One round of the loop in which choosing the guess raises (lines 171-188).
PlayRoundRaises ==
    /\ pc = "playing"
    /\ guess_index < Rounds(words)
    /\ \E outcome \in GuessOutcomes :
          /\ outcome.error # <<>>
          /\ pc' = outcome.error[1]
          /\ guess_pool' = PoolAfterRound
    /\ UNCHANGED <<guess, candidate, result, words, history, candidates, secret,
                   strategy, candidate_only, candidate_only_after, guess_index,
                   game_result>>
    /\ UNCHANGED <<db, suggestions, rank_limit, appended>>

\* The loop ran len(words) + 1 rounds without a return (line 195).
RaiseFailedToSolve ==
    /\ pc = "playing"
    /\ guess_index = Rounds(words)
    /\ pc' = "RuntimeError"
    /\ UNCHANGED <<guess, candidate, result, words, history, candidates, secret,
                   strategy, candidate_only, candidate_only_after, guess_index,
                   guess_pool, game_result>>
    /\ UNCHANGED <<db, suggestions, rank_limit, appended>>

Next == PlayRound \/ PlayRoundRaises \/ RaiseFailedToSolve

Spec == GameInit /\ [][Next]_vars


Guesses == [i \in 1..Len(history) |-> history[i].guess]

SecretInDictionary == secret \in Range(words)

DefaultPolicy == candidate_only = FALSE /\ candidate_only_after = 0

ReturnedSecret ==
    /\ pc = "returned"
    /\ game_result.secret = secret
    /\ Len(game_result.guesses) >= 1
    /\ game_result.guesses[Len(game_result.guesses)] = secret

\* C1 as stated: for every dictionary of distinct five-letter words, every
\* secret of it and each of the four strategies, under the default pool
\* policy, play_game ends by returning a GameResult whose secret is the given
\* secret and whose last guess is the secret.
C1_EveryStrategySolves ==
    (SecretInDictionary /\ strategy \in Strategies /\ DefaultPolicy) =>
        /\ pc = "playing" => guess_index < Rounds(words)
        /\ pc # "playing" => ReturnedSecret

\* C1 amended: under the same conditions play_game with entropy, shannon or
\* most-likely ends by returning a GameResult whose secret is the given
\* secret and whose last guess is the secret; with coverage it ends either so
\* or by raising the non-convergence RuntimeError.
C1_SolvingStrategies ==
    (SecretInDictionary /\ strategy \in Strategies /\ DefaultPolicy) =>
        /\ pc = "playing" => guess_index <= Rounds(words)
        /\ (pc = "playing" /\ strategy # "coverage") => guess_index < Rounds(words)
        /\ pc # "playing" =>
              \/ ReturnedSecret
              \/ (strategy = "coverage" /\ pc = "RuntimeError")

C1_Witness ==
    /\ SecretInDictionary /\ DefaultPolicy /\ strategy = "entropy"
    /\ Len(words) = 3
    /\ ReturnedSecret
    /\ Len(game_result.guesses) = 3

\* C6: play_game called with a strategy name other than the four fails with
\* a configuration error for every dictionary and every secret; it never
\* makes a guess by the single-candidate short-circuit and never returns a
\* GameResult.
C6_UnknownStrategyFails ==
    strategy \notin Strategies =>
        /\ pc \in {"playing", "ValueError"}
        /\ history = <<>>
        /\ game_result = NoGame

\* C9: with the secret in the dictionary and a valid strategy, whatever the
\* pool policy, play_game plays at most len(dictionary) + 1 rounds: it returns
\* a GameResult with 1 to len(dictionary) + 1 guesses, the last one the
\* secret, or raises the non-convergence error after exactly
\* len(dictionary) + 1 rounds, none of which guessed the secret.
C9_RoundBound ==
    (SecretInDictionary /\ strategy \in Strategies) =>
        /\ guess_index <= Len(words) + 1
        /\ Len(history) <= Len(words) + 1
        /\ pc \in {"playing", "returned", "RuntimeError"}
        /\ pc = "playing" =>
              /\ Len(history) = guess_index
              /\ \A i \in 1..Len(history) : history[i].guess # secret
        /\ pc = "returned" =>
              /\ ReturnedSecret
              /\ game_result.guesses = Guesses
              /\ Len(game_result.guesses) \in 1..(Len(words) + 1)
              /\ \A i \in 1..(Len(history) - 1) : history[i].guess # secret
        /\ pc = "RuntimeError" =>
              /\ Len(history) = Len(words) + 1
              /\ \A i \in 1..Len(history) : history[i].guess # secret
              /\ game_result = NoGame

C9_Witness ==
    /\ SecretInDictionary /\ strategy \in Strategies
    /\ pc = "RuntimeError"
    /\ Len(words) = 3 /\ Len(history) = 4


----------------------------------------------------------------------------
(* The history store (database.py) and the interactive path of cli.main.   *)
(* The database is the file (exists), the rows of the table guesses and    *)
(* the AUTOINCREMENT sequence of its id column; created_at is never read.  *)

\* sqlite3.connect creates the file, init_db the table if there is none.
InitDb(d) == IF d.exists THEN d ELSE [exists |-> TRUE, rows |-> {}, sequence |-> 0]

StoreGuess(d, gs, r) ==
    [d EXCEPT !.rows = @ \cup {[id |-> d.sequence + 1, guess |-> gs, result |-> r]},
              !.sequence = @ + 1]

\* SELECT guess, result FROM guesses ORDER BY id
RECURSIVE OrderById(_)
OrderById(rows) ==
    IF rows = {} THEN <<>>
    ELSE LET first == CHOOSE r \in rows : \A q \in rows : r.id <= q.id
         IN  <<[guess |-> first.guess, result |-> first.result]>>
                 \o OrderById(rows \ {first})

\* Mutant: the rows loaded newest first.
LoadNewestFirst(d) ==
    LET oldest_first == OrderById(d.rows)
        n == Len(oldest_first)
    IN  [i \in 1..n |-> oldest_first[n + 1 - i]] \o <<>>

LoadHistory(d) == OrderById(d.rows)

\* reset_db: unlink the file if it exists.
ResetDb(d) == IF d.exists THEN NoDb ELSE d

\* validate_guess and validate_result on input already stripped and in lower
\* case: whether the input is accepted (ValueError is raised otherwise).
ValidGuess(gs, ws) == Len(gs) = 5 /\ gs \in Range(ws)

ValidResult(r) == Len(r) = 5 /\ \A i \in 1..Len(r) : r[i] \in {"b", "y", "g"}

SuggestLimit == 10

MaxRows == 2

\* The word file of a run: the dictionary of the tests, and one whose words
\* share four letters.
CliDictionaries == {<<quota, paste, bdiff>>, <<baste, haste, paste>>}

\* An option that is not given (None).
None == <<>>

\* What is typed as a word: a word of the dictionary, or one that is not.
WordInputs(ws) == Range(ws) \cup {allay}

\* What is typed as --result: a feedback, or something that is none.
ResultInputs == {<<"b", "y", "b", "g", "b">>, <<"g", "y">>}

\* The command lines without --test.
CliArgs(ws) ==
    LET Options(gs, r, sec, show) ==
            {[guess |-> gs, result |-> r, secret |-> sec, show |-> show,
              reset |-> reset, strategy |-> strat, candidate |-> cand] :
                reset \in BOOLEAN, strat \in Strategies, cand \in BOOLEAN}
    IN  Options(None, <<>>, None, FALSE) \cup Options(None, <<>>, None, TRUE)
        \cup UNION {Options(gs, <<>>, sec, FALSE) : gs \in WordInputs(ws), sec \in WordInputs(ws)}
        \cup UNION {Options(gs, r, None, FALSE) : gs \in WordInputs(ws), r \in ResultInputs}
        \cup UNION {Options(gs, <<>>, None, show) : gs \in Range(ws), show \in BOOLEAN}
        \cup UNION {Options(None, r, None, FALSE) : r \in ResultInputs}

\* Lines 161-166: the combinations of options main refuses.
UsageError(a) ==
    LET has_guess == a.guess # None
        has_feedback == a.result # <<>> \/ a.secret # None
    IN  \/ a.show /\ (has_guess \/ has_feedback)
        \/ has_guess /\ ~has_feedback
        \/ has_feedback /\ ~has_guess

\* Lines 221-227: whether validating the guess and its feedback raises.
InputRejected(a, ws) ==
    /\ a.guess # None
    /\ \/ ~ValidGuess(a.guess, ws)
       \/ a.secret # None /\ ~ValidGuess(a.secret, ws)
       \/ a.secret = None /\ ~ValidResult(a.result)

\* Lines 242-258: the pool is the candidates with --candidate, the word list
\* with --words; suggest_top gets the pool only.  What main prints is the
\* pair <<suggestion_label, suggestions>>.
Suggestions(a, ws, cands) ==
    LET pool == IF a.candidate THEN cands ELSE ws
        Labelled(suggestion_label, rankings) ==
            {<<suggestion_label, ranking>> : ranking \in rankings}
    IN  CASE a.strategy = "entropy" ->
                 Labelled("Next guesses (expected remaining):",
                          {SuggestEntropy(pool, cands, SuggestLimit).ranking})
          [] a.strategy = "shannon" ->
                 Labelled("Next guesses (shannon entropy):",
                          SuggestShannon(pool, cands, SuggestLimit))
          [] a.strategy = "most-likely" ->
                 Labelled("Next guesses:", {SuggestTop(pool, SuggestLimit)})
          [] OTHER ->
                 Labelled("Next guesses (min remaining if bbbbb):",
                          {SuggestCoverage(pool, cands, SuggestLimit)})

CliInit ==
    /\ words \in CliDictionaries
    /\ db = NoDb
    /\ pc = "shell"
    /\ history = <<>> /\ candidates = <<>> /\ guess_pool = <<>>
    /\ suggestions = <<>>
    /\ strategy = "" /\ candidate_only = FALSE
    /\ guess = NoWord /\ candidate = NoWord /\ result = NoResult
    /\ secret = NoWord /\ candidate_only_after = 0 /\ guess_index = 0
    /\ game_result = NoGame
    /\ rank_limit = 0 /\ appended = <<>>

\* One run of main (lines 154-166 and 217-277).  strategy and candidate_only
\* hold args.strategy and args.candidate, history holds history_rows; pc is
\* "printed" after the report, "SystemExit" after a refused command line,
\* "NoCandidates" after the SystemExit of line 240, "ValueError" after a
\* rejected guess or feedback.
Main ==
    /\ pc = "shell"
    /\ \E a \in CliArgs(words) :
          /\ strategy' = a.strategy
          /\ candidate_only' = a.candidate
          /\ IF UsageError(a)
             THEN /\ pc' = "SystemExit"
                  /\ UNCHANGED <<db, history, candidates, guess_pool, suggestions>>
             ELSE LET cleared == IF a.reset THEN ResetDb(db) ELSE db
                  IN  IF InputRejected(a, words)
                      THEN /\ pc' = "ValueError"
                           /\ db' = cleared
                           /\ UNCHANGED <<history, candidates, guess_pool, suggestions>>
                      ELSE LET feedback == IF a.secret # None
                                           THEN ScoreWordle(a.guess, a.secret)
                                           ELSE a.result
                               stored == IF a.guess # None
                                         THEN StoreGuess(InitDb(cleared), a.guess, feedback)
                                         ELSE InitDb(cleared)
                               history_rows == LoadHistory(stored)
                               cands == FilterCandidates(words, history_rows)
                           IN  /\ a.guess # None => Cardinality(cleared.rows) < MaxRows
                               /\ db' = stored
                               /\ history' = history_rows
                               /\ candidates' = cands
                               /\ IF cands = <<>>
                                  THEN /\ pc' = "NoCandidates"
                                       /\ UNCHANGED <<guess_pool, suggestions>>
                                  ELSE /\ pc' = "printed"
                                       /\ guess_pool' = IF a.candidate THEN cands ELSE words
                                       /\ suggestions' \in Suggestions(a, words, cands)
    /\ UNCHANGED <<guess, candidate, result, words, secret, candidate_only_after,
                   guess_index, game_result, rank_limit, appended>>

\* The process ends; only the database file outlives it.
ProcessEnds ==
    /\ pc # "shell"
    /\ pc' = "shell"
    /\ history' = <<>> /\ candidates' = <<>> /\ guess_pool' = <<>>
    /\ suggestions' = <<>>
    /\ strategy' = "" /\ candidate_only' = FALSE
    /\ UNCHANGED <<guess, candidate, result, words, secret, candidate_only_after,
                   guess_index, game_result, db, rank_limit, appended>>

CliNext == Main \/ ProcessEnds

CliSpec == CliInit /\ [][CliNext]_vars

\* The frequency ranking of the claim C10: each pool word scored with the
\* occurrences of its distinct letters in the candidates, best first, equal
\* scores in the order of the pool.
FrequencyRanking(pool, cands, limit) ==
    LET scored == List([i \in 1..Len(pool) |-> <<ScoreWord(cands, pool[i]), pool[i]>>])
        before == {p \in Pairs(scored) :
                      FrequencyBefore(scored[p[1]], scored[p[2]])}
    IN  Take(SortedBy(scored, before), limit)

\* C10: wherever the frequency (most-likely) ranker is used by the command
\* line, with --candidate or with --words, each pool word's score is the sum
\* over its distinct letters of the letter's occurrences in the current
\* candidates, ranked by descending score, equal scores in pool order.
C10_FrequencyOverCandidates ==
    (pc = "printed" /\ strategy = "most-likely") =>
        suggestions[2] = FrequencyRanking(guess_pool, candidates, SuggestLimit)

-----------------------------------------------------------------------------
(* The rankers called on their own: suggest_top, suggest_coverage,         *)
(* suggest_entropy and suggest_shannon with any pool, any candidate list   *)
(* and any limit that is a count.  guess_pool holds the pool (all_words,   *)
(* or words for suggest_top), rank_limit the limit; suggestions holds the  *)
(* returned ranking after the name of the ranker that returned it.         *)

MaxLimit == 3

RankLists == {ws \in Dictionaries : Range(ws) \subseteq FilterWords}

RankInit ==
    /\ guess_pool \in RankLists
    /\ candidates \in RankLists
    /\ rank_limit \in 0..MaxLimit
    /\ suggestions = <<>>
    /\ pc = "call"
    /\ words = <<>> /\ history = <<>>
    /\ guess = NoWord /\ candidate = NoWord /\ result = NoResult
    /\ secret = NoWord /\ strategy = "" /\ candidate_only = FALSE
    /\ candidate_only_after = 0 /\ guess_index = 0
    /\ game_result = NoGame
    /\ db = NoDb /\ appended = <<>>

\* The variables no ranker touches: the rankers build new lists and leave
\* their arguments as they are.
RankerFrame ==
    UNCHANGED <<guess, candidate, result, words, history, candidates, secret,
                strategy, candidate_only, candidate_only_after, guess_index,
                guess_pool, game_result, db, rank_limit, appended>>

CallSuggestTop ==
    /\ pc = "call"
    /\ suggestions' = <<"suggest_top", SuggestTop(guess_pool, rank_limit)>>
    /\ pc' = "returned"
    /\ RankerFrame

CallSuggestCoverage ==
    /\ pc = "call"
    /\ suggestions' = <<"suggest_coverage",
                        SuggestCoverage(guess_pool, candidates, rank_limit)>>
    /\ pc' = "returned"
    /\ RankerFrame

CallSuggestEntropy ==
    /\ pc = "call"
    /\ LET out == SuggestEntropy(guess_pool, candidates, rank_limit)
       IN  IF out.error # <<>>
           THEN pc' = out.error[1] /\ UNCHANGED suggestions
           ELSE pc' = "returned" /\ suggestions' = <<"suggest_entropy", out.ranking>>
    /\ RankerFrame

CallSuggestShannon ==
    /\ pc = "call"
    /\ \E ranking \in SuggestShannon(guess_pool, candidates, rank_limit) :
          suggestions' = <<"suggest_shannon", ranking>>
    /\ pc' = "returned"
    /\ RankerFrame

RankNext ==
    CallSuggestTop \/ CallSuggestCoverage \/ CallSuggestEntropy \/ CallSuggestShannon

RankSpec == RankInit /\ [][RankNext]_vars

\* Whether a ranker has returned its ranking.
Returned(ranker) == pc = "returned" /\ suggestions[1] = ranker

\* (score, word) of pair a is at most (score, word) of pair b.
KeyAtMost(a, b) == a[1] < b[1] \/ (a[1] = b[1] /\ ~WordLess(b[2], a[2]))

\* ranking is the first count pairs, in ascending order of (score, word), of
\* the pool words paired with their scores (score[word]).
IsAscendingPrefix(ranking, pool, count, score) ==
    /\ Len(ranking) = Min(count, Len(pool))
    /\ \A k \in 1..Len(ranking) :
          /\ ranking[k][2] \in Range(pool)
          /\ ranking[k][1] = score[ranking[k][2]]
    /\ \A k \in 1..(Len(ranking) - 1) : KeyAtMost(ranking[k], ranking[k + 1])
    /\ \A i \in 1..Len(pool) :
          \/ \E k \in 1..Len(ranking) : ranking[k][2] = pool[i]
          \/ \A k \in 1..Len(ranking) :
                 KeyAtMost(ranking[k], <<score[pool[i]], pool[i]>>)

\* The sum, over the distinct patterns word gets against cands, of the
\* squared number of candidates with that pattern.
SquaredGroups(word, cands) ==
    LET patterns == {ScoreWordle(word, cands[i]) : i \in 1..Len(cands)}
    IN  SumOver(patterns,
                [p \in patterns |->
                    Cardinality({i \in 1..Len(cands) : ScoreWordle(word, cands[i]) = p})
                    * Cardinality({i \in 1..Len(cands) : ScoreWordle(word, cands[i]) = p})])

\* C11: for every pool and every non-empty candidate list of n words,
\* suggest_entropy scores each pool word w with score(w) * n = the sum over
\* the distinct patterns of w against the candidates of the squared number of
\* candidates with that pattern, so that 1 <= score <= n, and returns the
\* first limit pool words in ascending order of (score, word).  The score is
\* the fraction <<numerator, n>>; fractions of one call compare as their
\* numerators do.
C11_ExpectedRemaining ==
    (Returned("suggest_entropy") /\ candidates # <<>>) =>
        LET n == Len(candidates)
            ranking == suggestions[2]
            Numerators == [k \in 1..Len(ranking) |-> <<ranking[k][1][1], ranking[k][2]>>]
            Numerator == [word \in Range(guess_pool) |->
                             SquaredGroups(word, candidates)]
        IN  /\ \A k \in 1..Len(ranking) :
                  /\ ranking[k][1][2] = n
                  /\ n <= ranking[k][1][1] /\ ranking[k][1][1] <= n * n
            /\ IsAscendingPrefix(Numerators, guess_pool, rank_limit, Numerator)

\* suggest_entropy cut a pool of three to two, against two or more
\* candidates, with a word whose patterns put two candidates in one group.
C11_Witness ==
    /\ Returned("suggest_entropy")
    /\ Len(guess_pool) = 3 /\ rank_limit = 2 /\ Len(candidates) >= 2
    /\ \E k \in 1..Len(suggestions[2]) : suggestions[2][k][1][1] > Len(candidates)

\* The number of candidates that share no letter with word.
DisjointCandidates(word, cands) ==
    Cardinality({i \in 1..Len(cands) : Range(word) \cap Range(cands[i]) = {}})

\* C12: for every pool and candidate list, suggest_coverage scores each pool
\* word with the number of candidates its feedback is all-miss against (the
\* candidates that share no letter with it) and returns the first limit pool
\* words in ascending order of (count, word); the call leaves the pool and
\* the candidate list as they were.
C12_AllMissCount ==
    [][(pc = "call" /\ pc' = "returned" /\ suggestions'[1] = "suggest_coverage") =>
          /\ IsAscendingPrefix(suggestions'[2], guess_pool, rank_limit,
                               [word \in Range(guess_pool) |->
                                   DisjointCandidates(word, candidates)])
          /\ \A k \in 1..Len(suggestions'[2]) :
                 suggestions'[2][k][1] =
                     Cardinality({i \in 1..Len(candidates) :
                         ScoreWordle(suggestions'[2][k][2], candidates[i]) = AllMiss})
          /\ guess_pool' = guess_pool
          /\ candidates' = candidates]_vars

\* suggest_coverage cut a pool of three to two; the two words have the same
\* count, one or more, and stand in the pool in the other order.
C12_Witness ==
    /\ Returned("suggest_coverage")
    /\ Len(guess_pool) = 3 /\ rank_limit = 2
    /\ suggestions[2][1][1] = suggestions[2][2][1]
    /\ suggestions[2][1][1] >= 1
    /\ \E i, j \in 1..3 :
          i < j /\ guess_pool[i] = suggestions[2][2][2] /\ guess_pool[j] = suggestions[2][1][2]

\* C13: when exactly one candidate remains, the ranker of every strategy,
\* with the candidates (--candidate) or the word list (--words) as its pool,
\* ranks that candidate first in what the command line prints.
C13_SingleCandidateFirst ==
    (pc = "printed" /\ Len(candidates) = 1) =>
        /\ Len(suggestions[2]) >= 1
        /\ suggestions[2][1][2] = candidates[1]

-----------------------------------------------------------------------------
(* The history store used on its own: store_guess, load_history and        *)
(* reset_db in any order, each store and load on a fresh connection with   *)
(* init_db first, as main does.  appended is the list of the pairs given   *)
(* to store_guess since the last reset_db; history is what the last        *)
(* load_history returned.                                                  *)

StoredGuesses == {paste, quota}

StoredResults == {<<"b", "y", "b", "g", "b">>, AllHit}

DbInit ==
    /\ db = NoDb
    /\ appended = <<>>
    /\ history = <<>>
    /\ guess = NoWord /\ result = NoResult
    /\ pc = "idle"
    /\ words = <<>> /\ candidates = <<>> /\ guess_pool = <<>>
    /\ candidate = NoWord /\ secret = NoWord
    /\ strategy = "" /\ candidate_only = FALSE
    /\ candidate_only_after = 0 /\ guess_index = 0
    /\ game_result = NoGame
    /\ suggestions = <<>> /\ rank_limit = 0

DbFrame ==
    UNCHANGED <<candidate, words, candidates, secret, strategy, candidate_only,
                candidate_only_after, guess_index, guess_pool, game_result,
                suggestions, rank_limit>>

CallStoreGuess ==
    /\ Len(appended) < MaxRows
    /\ \E gs \in StoredGuesses, r \in StoredResults :
          /\ guess' = gs /\ result' = r
          /\ db' = StoreGuess(InitDb(db), gs, r)
          /\ appended' = Append(appended, [guess |-> gs, result |-> r])
    /\ pc' = "stored"
    /\ UNCHANGED history
    /\ DbFrame

CallLoadHistory ==
    /\ db' = InitDb(db)
    /\ history' = LoadHistory(db')
    /\ pc' = "loaded"
    /\ UNCHANGED <<guess, result, appended>>
    /\ DbFrame

CallResetDb ==
    /\ db' = ResetDb(db)
    /\ appended' = <<>>
    /\ pc' = "reset"
    /\ UNCHANGED <<guess, result, history>>
    /\ DbFrame

DbNext == CallStoreGuess \/ CallLoadHistory \/ CallResetDb

DbSpec == DbInit /\ [][DbNext]_vars

\* C14: after any sequence of store_guess and reset_db, load_history returns
\* exactly the (guess, result) pairs stored since the last reset, oldest
\* first: a store appends one pair to what is loaded and leaves the earlier
\* ones as they were, and after a reset the loaded history is empty.
C14_HistoryAppendOnly ==
    pc = "loaded" => history = appended

\* load_history returned two different pairs, the pair stored last in the
\* second place.
C14_Witness ==
    /\ pc = "loaded"
    /\ Len(history) = 2 /\ history[1] # history[2]
    /\ history[2] = [guess |-> guess, result |-> result]

-----------------------------------------------------------------------------
(* Claims about play_game's candidate set (specification Spec).            *)

\* C15: play_game, for any secret, one that is not in the dictionary
\* included, answers an empty candidate set with a reported end of the game:
\* it does not hand the empty set to a ranker and so does not end in the
\* ZeroDivisionError or IndexError of a ranking of nothing.
C15_EmptyCandidatesReported ==
    candidates = <<>> => pc \notin {"ZeroDivisionError", "IndexError"}

\* C16: in play_game with the secret in the dictionary, for every strategy
\* and pool policy, the secret is among the candidates at the start of every
\* round (so there is a candidate, and a single candidate is the secret), and
\* the candidates after a round are a sub-list of the candidates before it.
C16_SecretStaysCandidate ==
    [][(SecretInDictionary /\ pc = "playing") =>
          /\ secret \in Range(candidates)
          /\ Len(candidates) = 1 => candidates[1] = secret
          /\ pc' = "playing" => secret \in Range(candidates')
          /\ IsSubList(candidates', candidates)]_vars

\* The third round of a game over three words starts with the secret as the
\* only candidate left.
C16_Witness ==
    /\ SecretInDictionary /\ pc = "playing"
    /\ Len(words) = 3 /\ guess_index = 2
    /\ candidates = <<secret>>

====
